---- MODULE Spec2Model ----
(***************************************************************************)
(* A model of the YouTube title tool (src/app.py): title generation,       *)
(* length optimisation, the heuristic CTR predictor, the A/B variant       *)
(* synthesiser and the request handler that drives them.                   *)
(*                                                                         *)
(* A Python str is a sequence of one-character strings, so that len,       *)
(* split, join, replace, lower, the substring test and the two regular     *)
(* expressions are computed character by character as the code does.       *)
(* A CTR score is an integer number of hundredths; the value returned by   *)
(* round(ctr, 1) is an integer number of tenths.                           *)
(***************************************************************************)
EXTENDS Integers, Sequences, FiniteSets, TLC

VARIABLES
  pc,                \* position in the handler or in the function under study
  submitted,         \* st.form_submit_button(...)
  competitor_title,  \* st.text_input("Competitor's viral title:")
  video_topic,       \* st.text_input("Your video topic/keyword:")
  ctr_model,         \* models['ctr_model'] and models['vectorizer']: None or loaded
  titles,            \* generate_titles: titles
  used_templates,    \* generate_titles: used_templates
  picked,            \* generate_titles: the template each accepted title was built from
  generated_titles,  \* handler: generated_titles
  sentiment,         \* handler: sentiment
  ctr_score,         \* handler: ctr_score
  title_ctr,         \* handler: title_ctr
  variant_ctr,       \* handler: variant_ctr
  optimized_titles,  \* handler: optimized_titles
  ab_test_variants,  \* handler: ab_test_variants
  idx,               \* handler: the loop index i
  rendered,          \* what st.* has put on the page for this request
  calls,             \* the core functions invoked for this request
  title,             \* the argument of the function under study
  variants,          \* generate_ab_test_variants: variants
  result,            \* the value the function under study returned
  again              \* optimize_length applied to its own result

vars == << pc, submitted, competitor_title, video_topic, ctr_model, titles,
           used_templates, picked, generated_titles, sentiment, ctr_score,
           title_ctr, variant_ctr, optimized_titles, ab_test_variants, idx, rendered, calls, title,
           variants, result, again >>

None == "None"

(***************************************************************************)
(* Bounds of the model.                                                    *)
(***************************************************************************)
\* In the request handler every random.choice but the template's draws
\* among the first MaxDraw entries of its list.
MaxDraw == 1
\* In the request handler random.choice(TEMPLATES) draws among the first
\* MaxTemplateDraw templates.
MaxTemplateDraw == 3
\* generate_titles on its own draws the number and the power word among the
\* first MaxFill entries of their lists, and the template among all.
MaxFill == 2
\* Titles given to predict_ctr carry up to MaxPad filler characters.
MaxPad == 100
\* Titles given to optimize_length have up to MaxWords words.
MaxWords == 6
\* Titles given to generate_ab_test_variants are up to MaxTokens tokens.
MaxTokens == 3

(***************************************************************************)
(* Python str operations.                                                  *)
(***************************************************************************)
UpperLetters ==
  << "A", "B", "C", "D", "E", "F", "G", "H", "I", "J", "K", "L", "M",
     "N", "O", "P", "Q", "R", "S", "T", "U", "V", "W", "X", "Y", "Z" >>

LowerLetters ==
  << "a", "b", "c", "d", "e", "f", "g", "h", "i", "j", "k", "l", "m",
     "n", "o", "p", "q", "r", "s", "t", "u", "v", "w", "x", "y", "z" >>

Digits == << "0", "1", "2", "3", "4", "5", "6", "7", "8", "9" >>

Min(a, b) == IF a < b THEN a ELSE b

Max(a, b) == IF a > b THEN a ELSE b

Abs(a) == IF a < 0 THEN -a ELSE a

\* c.lower() for one character
LowerChar(c) ==
  IF \E i \in 1..26 : UpperLetters[i] = c
  THEN LowerLetters[CHOOSE i \in 1..26 : UpperLetters[i] = c]
  ELSE c

\* s.lower()
Lower(s) == [i \in 1..Len(s) |-> LowerChar(s[i])]

IsDigit(c) == \E i \in 1..10 : Digits[i] = c

IsSpace(c) == c = " "

\* sub in s
Contains(s, sub) ==
  \E i \in 0..(Len(s) - Len(sub)) : SubSeq(s, i + 1, i + Len(sub)) = sub

\* s.endswith(suffix)
EndsWith(s, suffix) ==
  /\ Len(suffix) <= Len(s)
  /\ SubSeq(s, Len(s) - Len(suffix) + 1, Len(s)) = suffix

\* the positions of s where a maximal run of non-whitespace characters starts
WordStarts(s) ==
  { i \in 1..Len(s) : ~IsSpace(s[i]) /\ (i = 1 \/ IsSpace(s[i - 1])) }

\* the position where the run that starts at i ends
WordEnd(s, i) ==
  CHOOSE j \in i..Len(s) :
    /\ \A m \in i..j : ~IsSpace(s[m])
    /\ (j = Len(s) \/ IsSpace(s[j + 1]))

\* s.split(): the maximal runs of non-whitespace characters, in order
Split(s) ==
  LET starts == WordStarts(s)
      nth(k) == CHOOSE i \in starts : Cardinality({ j \in starts : j <= i }) = k
  IN  [k \in 1..Cardinality(starts) |-> SubSeq(s, nth(k), WordEnd(s, nth(k)))]

RECURSIVE Join(_)
\* ' '.join(words)
Join(words) ==
  IF words = <<>> THEN <<>>
  ELSE IF Len(words) = 1 THEN words[1]
  ELSE words[1] \o <<" ">> \o Join(Tail(words))

\* the positions of s where old occurs
Occurrences(s, old) ==
  { i \in 1..(Len(s) - Len(old) + 1) :
      s[i] = old[1] /\ SubSeq(s, i, i + Len(old) - 1) = old }

RECURSIVE Replace(_, _, _)
\* s.replace(old, new) for a non-empty old: every non-overlapping
\* occurrence, left to right, case-sensitively
Replace(s, old, new) ==
  LET hits == Occurrences(s, old)
  IN  IF hits = {} THEN s
      ELSE LET i == CHOOSE h \in hits : \A g \in hits : h <= g
           IN  SubSeq(s, 1, i - 1) \o new
                 \o Replace(SubSeq(s, i + Len(old), Len(s)), old, new)

RECURSIVE StripLeft(_)
StripLeft(s) ==
  IF s # <<>> /\ IsSpace(Head(s)) THEN StripLeft(Tail(s)) ELSE s

RECURSIVE StripRight(_)
StripRight(s) ==
  IF s # <<>> /\ IsSpace(s[Len(s)]) THEN StripRight(SubSeq(s, 1, Len(s) - 1)) ELSE s

\* s.strip()
Strip(s) == StripRight(StripLeft(s))

\* word.isdigit()
IsDigitWord(word) == word # <<>> /\ \A i \in 1..Len(word) : IsDigit(word[i])

\* any(word.isdigit() for word in title.split())
HasNumberToken(t) == \E i \in 1..Len(Split(t)) : IsDigitWord(Split(t)[i])

DigitValue(c) == (CHOOSE i \in 1..10 : Digits[i] = c) - 1

RECURSIVE StrToNat(_)
\* int(run) for a run of digits
StrToNat(run) ==
  IF run = <<>> THEN 0
  ELSE 10 * StrToNat(SubSeq(run, 1, Len(run) - 1)) + DigitValue(run[Len(run)])

RECURSIVE NatToStr(_)
NatToStr(n) ==
  IF n < 10 THEN <<Digits[n + 1]>> ELSE NatToStr(n \div 10) \o <<Digits[(n % 10) + 1]>>

\* str(n)
IntToStr(n) == IF n < 0 THEN <<"-">> \o NatToStr(-n) ELSE NatToStr(n)

(***************************************************************************)
(* Constants of the program.                                               *)
(***************************************************************************)
POWER_WORDS ==
  << <<"S", "e", "c", "r", "e", "t">>,
     <<"U", "l", "t", "i", "m", "a", "t", "e">>,
     <<"A", "m", "a", "z", "i", "n", "g">>,
     <<"P", "r", "o", "v", "e", "n">>,
     <<"S", "h", "o", "c", "k", "i", "n", "g">>,
     <<"U", "n", "b", "e", "l", "i", "e", "v", "a", "b", "l", "e">>,
     <<"E", "s", "s", "e", "n", "t", "i", "a", "l">>,
     <<"C", "o", "m", "p", "l", "e", "t", "e">>,
     <<"E", "x", "a", "c", "t">>,
     <<"P", "e", "r", "f", "e", "c", "t">>,
     <<"A", "b", "s", "o", "l", "u", "t", "e">>,
     <<"A", "d", "v", "a", "n", "c", "e", "d">>,
     <<"N", "e", "v", "e", "r", " ", "S", "e", "e", "n", " ", "B", "e", "f", "o", "r", "e">>,
     <<"I", "n", "s", "i", "d", "e", "r">>,
     <<"E", "x", "c", "l", "u", "s", "i", "v", "e">>,
     <<"G", "u", "a", "r", "a", "n", "t", "e", "e", "d">>,
     <<"I", "n", "s", "t", "a", "n", "t">>,
     <<"L", "i", "m", "i", "t", "e", "d">>,
     <<"B", "r", "e", "a", "k", "t", "h", "r", "o", "u", "g", "h">>,
     <<"M", "a", "s", "t", "e", "r">> >>

TEMPLATES ==
  << <<"{", "n", "u", "m", "b", "e", "r", "}", " ", "{", "p", "o", "w", "e", "r", "_", "w", "o", "r", "d", "}", " ", "{", "k", "e", "y", "w", "o", "r", "d", "}", " ", "T", "i", "p", "s", " ", "N", "o", "b", "o", "d", "y", " ", "T", "e", "l", "l", "s", " ", "Y", "o", "u">>,
     <<"T", "h", "e", " ", "{", "p", "o", "w", "e", "r", "_", "w", "o", "r", "d", "}", " ", "G", "u", "i", "d", "e", " ", "t", "o", " ", "{", "k", "e", "y", "w", "o", "r", "d", "}", " ", "[", "Y", "o", "u", " ", "N", "e", "e", "d", " ", "T", "h", "i", "s", "]">>,
     <<"H", "o", "w", " ", "I", " ", "{", "k", "e", "y", "w", "o", "r", "d", "}", " ", "L", "i", "k", "e", " ", "a", " ", "P", "r", "o", " ", "(", "{", "p", "o", "w", "e", "r", "_", "w", "o", "r", "d", "}", " ", "M", "e", "t", "h", "o", "d", ")">>,
     <<"{", "n", "u", "m", "b", "e", "r", "}", " ", "{", "k", "e", "y", "w", "o", "r", "d", "}", " ", "H", "a", "c", "k", "s", " ", "T", "h", "a", "t", " ", "A", "c", "t", "u", "a", "l", "l", "y", " ", "W", "o", "r", "k">>,
     <<"T", "h", "i", "s", " ", "{", "p", "o", "w", "e", "r", "_", "w", "o", "r", "d", "}", " ", "{", "k", "e", "y", "w", "o", "r", "d", "}", " ", "T", "r", "i", "c", "k", " ", "W", "i", "l", "l", " ", "C", "h", "a", "n", "g", "e", " ", "E", "v", "e", "r", "y", "t", "h", "i", "n", "g">>,
     <<"W", "h", "y", " ", "N", "o", "b", "o", "d", "y", " ", "T", "a", "l", "k", "s", " ", "A", "b", "o", "u", "t", " ", "{", "k", "e", "y", "w", "o", "r", "d", "}", " ", "(", "A", "n", "d", " ", "W", "h", "a", "t", " ", "T", "o", " ", "D", "o", ")">>,
     <<"{", "n", "u", "m", "b", "e", "r", "}", " ", "M", "i", "n", "u", "t", "e", " ", "{", "k", "e", "y", "w", "o", "r", "d", "}", " ", "M", "a", "s", "t", "e", "r", "c", "l", "a", "s", "s", " ", "(", "{", "p", "o", "w", "e", "r", "_", "w", "o", "r", "d", "}", " ", "R", "e", "s", "u", "l", "t", "s", ")">>,
     <<"{", "k", "e", "y", "w", "o", "r", "d", "}", " ", "E", "x", "p", "l", "a", "i", "n", "e", "d", ":", " ", "{", "p", "o", "w", "e", "r", "_", "w", "o", "r", "d", "}", " ", "{", "n", "u", "m", "b", "e", "r", "}", "-", "S", "t", "e", "p", " ", "S", "y", "s", "t", "e", "m">>,
     <<"T", "h", "e", " ", "{", "p", "o", "w", "e", "r", "_", "w", "o", "r", "d", "}", " ", "T", "r", "u", "t", "h", " ", "A", "b", "o", "u", "t", " ", "{", "k", "e", "y", "w", "o", "r", "d", "}">>,
     <<"{", "n", "u", "m", "b", "e", "r", "}", " ", "{", "p", "o", "w", "e", "r", "_", "w", "o", "r", "d", "}", " ", "W", "a", "y", "s", " ", "t", "o", " ", "{", "k", "e", "y", "w", "o", "r", "d", "}", " ", "F", "a", "s", "t">> >>


NumberMarker == <<"{", "n", "u", "m", "b", "e", "r", "}">>

PowerWordMarker == <<"{", "p", "o", "w", "e", "r", "_", "w", "o", "r", "d", "}">>

KeywordMarker == <<"{", "k", "e", "y", "w", "o", "r", "d", "}">>

\* generate_titles: the numbers random.choice draws from
TitleNumbers == << 3, 5, 7, 10, 13, 15, 21 >>

\* optimize_length: additions
additions ==
  << <<"[", "2", "0", "2", "4", "]">>,
     <<"[", "P", "r", "o", " ", "T", "i", "p", "]">>,
     <<"[", "W", "o", "r", "k", "s", "!", "]">>,
     <<"[", "F", "r", "e", "e", "]">> >>


\* generate_ab_test_variants: the numbers, the deltas and the brackets
VariantNumbers == << 3, 5, 7 >>

VariantDeltas == << 1, 2, -1 >>

brackets ==
  << <<"[", "T", "r", "y", " ", "T", "h", "i", "s", "]">>,
     <<"[", "F", "r", "e", "e", " ", "G", "u", "i", "d", "e", "]">>,
     <<"[", "S", "t", "e", "p", "-", "b", "y", "-", "S", "t", "e", "p", "]">>,
     <<"[", "N", "e", "w", " ", "M", "e", "t", "h", "o", "d", "]">> >>


\* random.choice(list) restricted to the first k entries: the indices it may draw
Choices(list, k) == 1..Min(Len(list), k)

(***************************************************************************)
(* predict_ctr                                                             *)
(***************************************************************************)
\* pw.lower() for each pw of POWER_WORDS
LowerPowerWords == [i \in 1..Len(POWER_WORDS) |-> Lower(POWER_WORDS[i])]

\* the indices of the pw in POWER_WORDS with pw.lower() in title.lower()
PowerWordsIn(t) ==
  LET lowered == Lower(t)
  IN  { i \in 1..Len(POWER_WORDS) : Contains(lowered, LowerPowerWords[i]) }

\* any(pw.lower() in title.lower() for pw in POWER_WORDS)
HasPowerWord(t) == PowerWordsIn(t) # {}

\* LengthScore with the length counted one too many
LengthScoreOneMore(t) == 6 * Max(0, 50 - Abs(Len(t) + 1 - 50))

\* length_score * 3, in hundredths: max(0, 1 - abs(len(title) - 50)/50) * 3
LengthScore(t) == 6 * Max(0, 50 - Abs(Len(t) - 50))

\* power_word_score * 2, in hundredths
PowerWordScore(t) == IF HasPowerWord(t) THEN 100 ELSE 0

\* number_score, in hundredths
NumberScore(t) == IF HasNumberToken(t) THEN 30 ELSE 0

\* question_score, in hundredths
QuestionScore(t) == IF EndsWith(t, <<"?">>) THEN 40 ELSE 0

\* The fallback branch: ctr = min(12, max(1, 3 + ...)), in hundredths.  Every
\* term is a multiple of 0.02, and the float sums compare and round as these
\* exact sums do.
HeuristicCtr(t) ==
  Min(1200, Max(100, 300 + LengthScore(t) + PowerWordScore(t)
                         + NumberScore(t) + QuestionScore(t)))

\* "good" if ctr > 7 else "avg" if ctr > 4 else "bad", ctr in hundredths
Rating(ctr) == IF ctr > 700 THEN "good" ELSE IF ctr > 400 THEN "avg" ELSE "bad"

\* round(ctr, 1), in tenths, of a ctr in hundredths that is no tie (x.x5)
Round1(ctr) == (ctr + 5) \div 10

\* predict_ctr(title): model is None with no model artifacts; with a model
\* loaded, prediction is what models['ctr_model'].predict returned, in hundredths
predict_ctr(t, model, prediction) ==
  LET ctr == IF model # None THEN prediction ELSE HeuristicCtr(t)
  IN  [value |-> Round1(ctr), rating |-> Rating(ctr)]

(***************************************************************************)
(* optimize_length                                                         *)
(***************************************************************************)
\* words.pop(i), i counted from 0
Pop(words, i) == SubSeq(words, 1, i) \o SubSeq(words, i + 2, Len(words))

\* ShortenMore with the floor of the word count one higher
ShortenMoreAboveSix(words) == Len(Join(words)) > 60 /\ Len(words) > 6

\* while len(' '.join(words)) > 60 and len(words) > 5
ShortenMore(words) == Len(Join(words)) > 60 /\ Len(words) > 5

RECURSIVE Shorten(_)
\* the loop of optimize_length: every title it can return from words,
\* over the draws of random.randint(2, len(words)-2)
Shorten(words) ==
  IF ShortenMore(words)
  THEN UNION { Shorten(Pop(words, i)) : i \in 2..(Len(words) - 2) }
  ELSE { Join(words) }

\* optimize_length with a title of exactly 40 characters taken for a short one
optimize_length_short_at_40(t, k) ==
  IF Len(t) <= 40
  THEN { t \o <<" ">> \o additions[a] : a \in Choices(additions, k) }
  ELSE IF Len(t) > 65 THEN Shorten(Split(t))
  ELSE { t }

\* optimize_length(title): every title it can return, random.choice drawing
\* among the first k additions
optimize_length(t, k) ==
  IF Len(t) < 40
  THEN { t \o <<" ">> \o additions[a] : a \in Choices(additions, k) }
  ELSE IF Len(t) > 65 THEN Shorten(Split(t))
  ELSE { t }

(***************************************************************************)
(* generate_ab_test_variants                                               *)
(***************************************************************************)
\* 1. Question vs Statement
QuestionVariant(t) ==
  IF ~Contains(t, <<"?">>) THEN t \o <<"?">> ELSE Replace(t, <<"?">>, <<"!">>)

\* the end of the run of digits that starts at i
RECURSIVE DigitRunEnd(_, _)
DigitRunEnd(s, i) ==
  IF i < Len(s) /\ IsDigit(s[i + 1]) THEN DigitRunEnd(s, i + 1) ELSE i

RECURSIVE CountDigitRuns(_, _)
CountDigitRuns(s, i) ==
  IF i > Len(s) THEN 0
  ELSE IF IsDigit(s[i]) THEN 1 + CountDigitRuns(s, DigitRunEnd(s, i) + 1)
  ELSE CountDigitRuns(s, i + 1)

\* the number of matches of \d+ in s
DigitRuns(s) == CountDigitRuns(s, 1)

RECURSIVE SubDigitsFrom(_, _, _, _)
SubDigitsFrom(s, deltas, i, k) ==
  IF i > Len(s) THEN <<>>
  ELSE IF IsDigit(s[i])
       THEN LET j == DigitRunEnd(s, i)
            IN  IntToStr(StrToNat(SubSeq(s, i, j)) + deltas[k])
                  \o SubDigitsFrom(s, deltas, j + 1, k + 1)
       ELSE <<s[i]>> \o SubDigitsFrom(s, deltas, i + 1, k)

\* re.sub(r'\d+', lambda m: str(int(m.group()) + random.choice([1,2,-1])), s):
\* deltas[k] is the draw made for the k-th match
SubDigits(s, deltas) == SubDigitsFrom(s, deltas, 1, 1)

\* 2. Number variation
NumberVariant(t, n, deltas) ==
  IF HasNumberToken(t)
  THEN SubDigits(t, deltas)
  ELSE IntToStr(VariantNumbers[n]) \o <<" ">> \o t

\* 3. Power word swap: the list of candidates it appends (none or one);
\* p is the index random.choice draws in [q for q in POWER_WORDS if q != pw]
PowerWordVariant(t, p) ==
  LET found == PowerWordsIn(t)
  IN  IF found = {} THEN <<>>
      ELSE LET first == CHOOSE i \in found : \A j \in found : i <= j
               pw == POWER_WORDS[first]
               others == SelectSeq(POWER_WORDS, LAMBDA q : q # pw)
           IN  << Replace(t, pw, others[p]) >>

RECURSIVE SubBracketsFrom(_, _)
SubBracketsFrom(s, i) ==
  IF i > Len(s) THEN <<>>
  ELSE IF s[i] = "[" /\ \E j \in (i + 1)..Len(s) : s[j] = "]"
       THEN SubBracketsFrom(s, (CHOOSE j \in (i + 1)..Len(s) :
                                  /\ s[j] = "]"
                                  /\ \A m \in (i + 1)..(j - 1) : s[m] # "]") + 1)
       ELSE <<s[i]>> \o SubBracketsFrom(s, i + 1)

\* re.sub(r'\[.*?\]', '', s): every match removed, each match running from
\* a '[' to the first ']' after it
SubBrackets(s) == SubBracketsFrom(s, 1)

\* 4. Bracket addition/removal
BracketVariant(t, b) ==
  IF Contains(t, <<"[">>)
  THEN Strip(SubBrackets(t))
  ELSE t \o <<" ">> \o brackets[b]

\* variants, as built by the four rules
VariantList(t, n, deltas, p, b) ==
  << QuestionVariant(t), NumberVariant(t, n, deltas) >>
    \o PowerWordVariant(t, p) \o << BracketVariant(t, b) >>

\* The draws each rule makes for t, each random.choice drawing among the
\* first k entries of its list: a rule draws only on the branch it takes.
NumberDraws(t, k) ==
  IF HasNumberToken(t) THEN { 1 } ELSE Choices(VariantNumbers, k)

DeltaDraws(t, k) ==
  IF HasNumberToken(t)
  THEN [1..DigitRuns(t) -> { VariantDeltas[d] : d \in Choices(VariantDeltas, k) }]
  ELSE { <<>> }

PowerWordDraws(t, k) ==
  IF HasPowerWord(t) THEN 1..Min(Len(POWER_WORDS) - 1, k) ELSE { 1 }

BracketDraws(t, k) ==
  IF Contains(t, <<"[">>) THEN { 1 } ELSE Choices(brackets, k)

Range(s) == { s[i] : i \in 1..Len(s) }

\* list(set(vs)): the distinct elements of vs, in any order
ListOfSet(vs) ==
  { order \in [1..Cardinality(Range(vs)) -> Range(vs)] :
      \A i, j \in 1..Cardinality(Range(vs)) : i # j => order[i] # order[j] }

\* ReturnedVariants without the set: variants[:4]
ReturnedVariantsAsBuilt(vs) == { SubSeq(vs, 1, Min(4, Len(vs))) }

\* list(set(variants))[:4]: every list the function can return for variants
ReturnedVariants(vs) ==
  { SubSeq(order, 1, Min(4, Len(order))) : order \in ListOfSet(vs) }

(***************************************************************************)
(* The scoring backends.                                                   *)
(***************************************************************************)
\* the outcome of a call that raised
Raised == [raised |-> TRUE]

\* the outcome of a call that returned v
Returned(v) == [raised |-> FALSE, value |-> v]

Loaded == "loaded"

\* analyze_sentiment(title): the backend's answer, or the exception it raised
analyze_sentiment(t) == { Returned([label |-> "POSITIVE", score |-> 99]), Raised }

\* Values models['ctr_model'].predict may return, in hundredths: one on the
\* scale of the page and one above it.
ModelPredictions == { 704, 1600 }

\* predict_ctr(title) under the loaded artifacts: its return values and, with
\* a model loaded, the exception of the vectorizer or the model
PredictOutcomes(t, model) ==
  IF model = None
  THEN { Returned(predict_ctr(t, None, 0)) }
  ELSE { Returned(predict_ctr(t, model, p)) : p \in ModelPredictions } \cup { Raised }

(***************************************************************************)
(* generate_titles                                                         *)
(***************************************************************************)
\* title = template; for k, v in replacements.items(): title = title.replace(k, v)
FillTemplate(template, n, p, keyword) ==
  Replace(Replace(Replace(template, NumberMarker, IntToStr(TitleNumbers[n])),
                  PowerWordMarker, POWER_WORDS[p]),
          KeywordMarker, keyword)

AllTemplates == 1..Len(TEMPLATES)

\* GenAccept without used_templates.add(template)
GenAcceptUnmarked(T, k) ==
  /\ pc = "generate_titles"
  /\ Len(titles) < 3
  /\ \E t \in T :
       /\ TEMPLATES[t] \notin used_templates
       /\ picked' = Append(picked, TEMPLATES[t])
       /\ \E n \in Choices(TitleNumbers, k), p \in Choices(POWER_WORDS, k) :
            titles' = Append(titles, FillTemplate(TEMPLATES[t], n, p, video_topic))
  /\ UNCHANGED << pc, submitted, competitor_title, video_topic, ctr_model,
                  used_templates, generated_titles, sentiment, ctr_score,
                  title_ctr, variant_ctr, optimized_titles, ab_test_variants, idx,
                  rendered, calls, title, variants, result, again >>

\* One pass of the loop whose template is new; T is the set of indices
\* random.choice(TEMPLATES) draws from, and the number and the power word
\* are drawn among the first k of their lists.
GenAccept(T, k) ==
  /\ pc = "generate_titles"
  /\ Len(titles) < 3
  /\ \E t \in T :
       /\ TEMPLATES[t] \notin used_templates
       /\ used_templates' = used_templates \cup { TEMPLATES[t] }
       /\ picked' = Append(picked, TEMPLATES[t])
       /\ \E n \in Choices(TitleNumbers, k), p \in Choices(POWER_WORDS, k) :
            titles' = Append(titles, FillTemplate(TEMPLATES[t], n, p, video_topic))
  /\ UNCHANGED << pc, submitted, competitor_title, video_topic, ctr_model,
                  generated_titles, sentiment, ctr_score, title_ctr, variant_ctr,
                  optimized_titles, ab_test_variants, idx, rendered, calls,
                  title, variants, result, again >>

\* One pass of the loop whose template was used already: continue.
GenReject(T) ==
  /\ pc = "generate_titles"
  /\ Len(titles) < 3
  /\ \E t \in T : TEMPLATES[t] \in used_templates
  /\ UNCHANGED vars

\* return titles[:3]
GenReturn ==
  /\ pc = "generate_titles"
  /\ ~(Len(titles) < 3)
  /\ generated_titles' = SubSeq(titles, 1, Min(3, Len(titles)))
  /\ pc' = "analyze_competitor"
  /\ UNCHANGED << submitted, competitor_title, video_topic, ctr_model, titles,
                  used_templates, picked, sentiment, ctr_score, title_ctr,
                  variant_ctr, optimized_titles, ab_test_variants, idx, rendered,
                  calls, title, variants, result, again >>

(***************************************************************************)
(* The request handler: the script from the form to the except clause.     *)
(***************************************************************************)
\* if submitted and competitor_title: ... generate_titles(competitor_title, video_topic)
GuardPass ==
  /\ pc = "form"
  /\ submitted /\ competitor_title # <<>>
  /\ calls' = calls \cup { "generate_titles" }
  /\ titles' = <<>>
  /\ used_templates' = {}
  /\ picked' = <<>>
  /\ pc' = "generate_titles"
  /\ UNCHANGED << submitted, competitor_title, video_topic, ctr_model,
                  generated_titles, sentiment, ctr_score, title_ctr, variant_ctr,
                  optimized_titles, ab_test_variants, idx, rendered, title,
                  variants, result, again >>

\* the results section is skipped
GuardBlock ==
  /\ pc = "form"
  /\ ~(submitted /\ competitor_title # <<>>)
  /\ pc' = "done"
  /\ UNCHANGED << submitted, competitor_title, video_topic, ctr_model, titles,
                  used_templates, picked, generated_titles, sentiment, ctr_score,
                  title_ctr, variant_ctr, optimized_titles, ab_test_variants, idx,
                  rendered, calls, title, variants, result, again >>

\* sentiment = analyze_sentiment(competitor_title)
AnalyzeCompetitor ==
  /\ pc = "analyze_competitor"
  /\ calls' = calls \cup { "analyze_sentiment" }
  /\ \E out \in analyze_sentiment(competitor_title) :
       IF out.raised
       THEN pc' = "except" /\ UNCHANGED sentiment
       ELSE pc' = "predict_competitor" /\ sentiment' = out.value
  /\ UNCHANGED << submitted, competitor_title, video_topic, ctr_model, titles,
                  used_templates, picked, generated_titles, ctr_score, title_ctr,
                  variant_ctr, optimized_titles, ab_test_variants, idx, rendered,
                  title, variants, result, again >>

\* ctr_score = predict_ctr(competitor_title)
PredictCompetitor ==
  /\ pc = "predict_competitor"
  /\ calls' = calls \cup { "predict_ctr" }
  /\ \E out \in PredictOutcomes(competitor_title, ctr_model) :
       IF out.raised
       THEN pc' = "except" /\ UNCHANGED ctr_score
       ELSE pc' = "optimize_titles" /\ ctr_score' = out.value
  /\ UNCHANGED << submitted, competitor_title, video_topic, ctr_model, titles,
                  used_templates, picked, generated_titles, sentiment, title_ctr,
                  variant_ctr, optimized_titles, ab_test_variants, idx, rendered,
                  title, variants, result, again >>

\* optimized_titles = [optimize_length(title) for title in generated_titles]
OptimizeTitles ==
  /\ pc = "optimize_titles"
  /\ calls' = calls \cup { "optimize_length" }
  /\ \E o \in [1..Len(generated_titles) ->
                 UNION { optimize_length(generated_titles[i], MaxDraw) :
                           i \in 1..Len(generated_titles) }] :
       /\ \A i \in 1..Len(generated_titles) :
            o[i] \in optimize_length(generated_titles[i], MaxDraw)
       /\ optimized_titles' = SubSeq(o, 1, Len(generated_titles))
  /\ pc' = "ab_variants"
  /\ UNCHANGED << submitted, competitor_title, video_topic, ctr_model, titles,
                  used_templates, picked, generated_titles, sentiment, ctr_score,
                  title_ctr, variant_ctr, ab_test_variants, idx, rendered, title,
                  variants, result, again >>

\* generate_ab_test_variants(t): every list it can return, each
\* random.choice drawing among the first k entries of its list
generate_ab_test_variants(t, k) ==
  UNION { ReturnedVariants(VariantList(t, n, deltas, p, b)) :
            n \in NumberDraws(t, k), deltas \in DeltaDraws(t, k),
            p \in PowerWordDraws(t, k), b \in BracketDraws(t, k) }

\* ab_test_variants = generate_ab_test_variants(competitor_title)
AbVariants ==
  /\ pc = "ab_variants"
  /\ calls' = calls \cup { "generate_ab_test_variants" }
  /\ \E vs \in generate_ab_test_variants(competitor_title, MaxDraw) :
       ab_test_variants' = vs
  /\ pc' = "render_competitor"
  /\ UNCHANGED << submitted, competitor_title, video_topic, ctr_model, titles,
                  used_templates, picked, generated_titles, sentiment, ctr_score,
                  title_ctr, variant_ctr, optimized_titles, idx, rendered, title,
                  variants, result, again >>

\* "Ideal: 40-60" if 40 <= len <= 60 else "Too short" if len < 40 else "Too long"
LengthVerdict(t) ==
  IF 40 <= Len(t) /\ Len(t) <= 60 THEN "Ideal: 40-60"
  ELSE IF Len(t) < 40 THEN "Too short" ELSE "Too long"

\* st.progress(value) takes a float in [0.0, 1.0] and raises on any other;
\* value is ctr_score['value']/15, the value in tenths
ProgressAccepts(value) == 0 <= value /\ value <= 150

\* the competitor analysis block, its progress bar, and the heading of the
\* generated titles; the metrics are on the page when st.progress raises
RenderCompetitor ==
  /\ pc = "render_competitor"
  /\ IF ProgressAccepts(ctr_score.value)
     THEN /\ rendered' = rendered \o
               << [kind |-> "competitor_analysis", sentiment |-> sentiment,
                   ctr |-> ctr_score, length |-> Len(competitor_title),
                   verdict |-> LengthVerdict(competitor_title)],
                  [kind |-> "options_heading"] >>
          /\ idx' = 1
          /\ pc' = "card_predict"
     ELSE /\ rendered' = Append(rendered,
               [kind |-> "competitor_analysis", sentiment |-> sentiment,
                ctr |-> ctr_score, length |-> Len(competitor_title),
                verdict |-> LengthVerdict(competitor_title)])
          /\ idx' = idx
          /\ pc' = "except"
  /\ UNCHANGED << submitted, competitor_title, video_topic, ctr_model, titles,
                  used_templates, picked, generated_titles, sentiment, ctr_score,
                  title_ctr, variant_ctr, optimized_titles, ab_test_variants,
                  calls, title, variants, result, again >>

\* for i, title in enumerate(optimized_titles, 1): title_ctr = predict_ctr(title)
CardPredict ==
  /\ pc = "card_predict"
  /\ idx <= Len(optimized_titles)
  /\ calls' = calls \cup { "predict_ctr" }
  /\ \E out \in PredictOutcomes(optimized_titles[idx], ctr_model) :
       IF out.raised
       THEN pc' = "except" /\ UNCHANGED title_ctr
       ELSE pc' = "card_sentiment" /\ title_ctr' = out.value
  /\ UNCHANGED << submitted, competitor_title, video_topic, ctr_model, titles,
                  used_templates, picked, generated_titles, sentiment, ctr_score,
                  variant_ctr, optimized_titles, ab_test_variants, idx, rendered,
                  title, variants, result, again >>

\* sentiment = analyze_sentiment(title)
CardSentiment ==
  /\ pc = "card_sentiment"
  /\ calls' = calls \cup { "analyze_sentiment" }
  /\ \E out \in analyze_sentiment(optimized_titles[idx]) :
       IF out.raised
       THEN pc' = "except" /\ UNCHANGED sentiment
       ELSE pc' = "render_card" /\ sentiment' = out.value
  /\ UNCHANGED << submitted, competitor_title, video_topic, ctr_model, titles,
                  used_templates, picked, generated_titles, ctr_score, title_ctr,
                  variant_ctr, optimized_titles, ab_test_variants, idx, rendered,
                  title, variants, result, again >>

\* the card of one generated title
RenderCard ==
  /\ pc = "render_card"
  /\ rendered' = Append(rendered,
       [kind |-> "card", option |-> idx, text |-> optimized_titles[idx],
        length |-> Len(optimized_titles[idx]), ctr |-> title_ctr,
        sentiment |-> sentiment])
  /\ idx' = idx + 1
  /\ pc' = "card_predict"
  /\ UNCHANGED << submitted, competitor_title, video_topic, ctr_model, titles,
                  used_templates, picked, generated_titles, sentiment, ctr_score,
                  title_ctr, variant_ctr, optimized_titles, ab_test_variants,
                  calls, title, variants, result, again >>

\* the loop over optimized_titles is over: the heading of the A/B section
CardsDone ==
  /\ pc = "card_predict"
  /\ ~(idx <= Len(optimized_titles))
  /\ rendered' = Append(rendered, [kind |-> "ab_heading"])
  /\ idx' = 1
  /\ pc' = "variant_predict"
  /\ UNCHANGED << submitted, competitor_title, video_topic, ctr_model, titles,
                  used_templates, picked, generated_titles, sentiment, ctr_score,
                  title_ctr, variant_ctr, optimized_titles, ab_test_variants,
                  calls, title, variants, result, again >>

\* for i, variant in enumerate(ab_test_variants, 1): variant_ctr = predict_ctr(variant)
VariantPredict ==
  /\ pc = "variant_predict"
  /\ idx <= Len(ab_test_variants)
  /\ calls' = calls \cup { "predict_ctr" }
  /\ \E out \in PredictOutcomes(ab_test_variants[idx], ctr_model) :
       IF out.raised
       THEN pc' = "except" /\ UNCHANGED variant_ctr
       ELSE pc' = "render_variant" /\ variant_ctr' = out.value
  /\ UNCHANGED << submitted, competitor_title, video_topic, ctr_model, titles,
                  used_templates, picked, generated_titles, sentiment, ctr_score,
                  title_ctr, optimized_titles, ab_test_variants, idx, rendered,
                  title, variants, result, again >>

\* the line of one A/B variant
RenderVariant ==
  /\ pc = "render_variant"
  /\ rendered' = Append(rendered,
       [kind |-> "variant", option |-> idx, text |-> ab_test_variants[idx],
        length |-> Len(ab_test_variants[idx]), ctr |-> variant_ctr])
  /\ idx' = idx + 1
  /\ pc' = "variant_predict"
  /\ UNCHANGED << submitted, competitor_title, video_topic, ctr_model, titles,
                  used_templates, picked, generated_titles, sentiment, ctr_score,
                  title_ctr, variant_ctr, optimized_titles, ab_test_variants,
                  calls, title, variants, result, again >>

\* the loop over ab_test_variants is over: the try block ends
VariantsDone ==
  /\ pc = "variant_predict"
  /\ ~(idx <= Len(ab_test_variants))
  /\ pc' = "done"
  /\ UNCHANGED << submitted, competitor_title, video_topic, ctr_model, titles,
                  used_templates, picked, generated_titles, sentiment, ctr_score,
                  title_ctr, variant_ctr, optimized_titles, ab_test_variants, idx,
                  rendered, calls, title, variants, result, again >>

\* except Exception as e: st.error(...)
Except ==
  /\ pc = "except"
  /\ rendered' = Append(rendered, [kind |-> "error"])
  /\ pc' = "done"
  /\ UNCHANGED << submitted, competitor_title, video_topic, ctr_model, titles,
                  used_templates, picked, generated_titles, sentiment, ctr_score,
                  title_ctr, variant_ctr, optimized_titles, ab_test_variants, idx,
                  calls, title, variants, result, again >>

\* The titles and keywords typed into the form.
RequestTitles == { <<>>, <<"a", "b">>, <<"7", " ", "S", "e", "c", "r", "e", "t">> }

Keywords == { <<>>, <<"s", "e", "o">> }

\* The variables of the functions studied on their own, at rest.
FunctionsIdle ==
  /\ title = <<>>
  /\ variants = <<>>
  /\ result = None
  /\ again = None

\* The variables of the handler before the results section runs.
HandlerIdle ==
  /\ titles = <<>>
  /\ used_templates = {}
  /\ picked = <<>>
  /\ generated_titles = <<>>
  /\ sentiment = None
  /\ ctr_score = None
  /\ title_ctr = None
  /\ variant_ctr = None
  /\ optimized_titles = <<>>
  /\ ab_test_variants = <<>>
  /\ idx = 0
  /\ rendered = <<>>

Init ==
  /\ pc = "form"
  /\ submitted \in BOOLEAN
  /\ competitor_title \in RequestTitles
  /\ video_topic \in Keywords
  /\ ctr_model \in { None, Loaded }
  /\ calls = {}
  /\ HandlerIdle
  /\ FunctionsIdle

Next ==
  \/ GuardPass
  \/ GuardBlock
  \/ GenAccept(1..MaxTemplateDraw, MaxDraw)
  \/ GenReject(1..MaxTemplateDraw)
  \/ GenReturn
  \/ AnalyzeCompetitor
  \/ PredictCompetitor
  \/ OptimizeTitles
  \/ AbVariants
  \/ RenderCompetitor
  \/ CardPredict
  \/ CardSentiment
  \/ RenderCard
  \/ CardsDone
  \/ VariantPredict
  \/ RenderVariant
  \/ VariantsDone
  \/ Except

Spec == Init /\ [][Next]_vars

(***************************************************************************)
(* generate_titles on its own: the call, for every keyword.                *)
(***************************************************************************)
InitGen ==
  /\ pc = "generate_titles"
  /\ submitted = TRUE
  /\ competitor_title = <<"a", "b">>
  /\ video_topic \in Keywords
  /\ ctr_model = None
  /\ calls = { "generate_titles" }
  /\ HandlerIdle
  /\ FunctionsIdle

NextGen ==
  \/ GenAccept(AllTemplates, MaxFill)
  \/ GenReject(AllTemplates)
  \/ GenReturn

SpecGen == InitGen /\ [][NextGen]_vars

(***************************************************************************)
(* predict_ctr on its own.                                                 *)
(***************************************************************************)
WhyThisWorks == <<"W", "h", "y", " ", "T", "h", "i", "s", " ", "W", "o", "r", "k", "s">>

Pad(n) == [i \in 1..n |-> "x"]

CtrPrefixes == { <<>>, <<"S", "e", "c", "r", "e", "t", " ">>, <<"s", "e", "c", "r", "e", "t", " ">>, <<"7", " ">>, <<"7", " ", "S", "e", "c", "r", "e", "t", " ">> }

\* Titles of every length up to MaxPad and more, with and without a power
\* word, a numeric token and a final question mark.
CtrTitles ==
  { prefix \o Pad(n) \o suffix :
      prefix \in CtrPrefixes, n \in 0..MaxPad, suffix \in { <<>>, <<"?">> } }
    \cup { WhyThisWorks }

InitCtr ==
  /\ pc = "predict_ctr"
  /\ title \in CtrTitles
  /\ ctr_model \in { None, Loaded }
  /\ submitted = FALSE
  /\ competitor_title = <<>>
  /\ video_topic = <<>>
  /\ calls = {}
  /\ variants = <<>>
  /\ result = None
  /\ again = None
  /\ HandlerIdle

\* result = predict_ctr(title)
CallPredictCtr ==
  /\ pc = "predict_ctr"
  /\ \E out \in PredictOutcomes(title, ctr_model) :
       /\ result' = out
       /\ pc' = IF out.raised THEN "raised" ELSE "returned"
  /\ UNCHANGED << submitted, competitor_title, video_topic, ctr_model, titles,
                  used_templates, picked, generated_titles, sentiment, ctr_score,
                  title_ctr, variant_ctr, optimized_titles, ab_test_variants, idx,
                  rendered, calls, title, variants, again >>

NextCtr == CallPredictCtr

SpecCtr == InitCtr /\ [][NextCtr]_vars

(***************************************************************************)
(* optimize_length on its own, and applied to its own result.              *)
(***************************************************************************)
OptWords == { <<"a", "a", "a", "a">>, <<"b", "b", "b", "b", "b", "b", "b", "b">>, <<"c", "c", "c", "c", "c", "c", "c", "c", "c", "c", "c", "c", "c", "c", "c", "c", "c", "c", "c", "c", "c", "c", "c", "c", "c", "c", "c", "c", "c", "c">> }

RECURSIVE WordLists(_)
\* the lists of up to k words
WordLists(k) ==
  IF k = 0 THEN { <<>> }
  ELSE LET shorter == WordLists(k - 1)
       IN  shorter \cup { Append(ws, w) : ws \in shorter, w \in OptWords }

RECURSIVE JoinWith(_, _)
JoinWith(words, gap) ==
  IF words = <<>> THEN <<>>
  ELSE IF Len(words) = 1 THEN words[1]
  ELSE words[1] \o gap \o JoinWith(Tail(words), gap)

\* Titles of up to MaxWords words, separated by one space or by two.
OptTitles ==
  { JoinWith(ws, gap) : ws \in WordLists(MaxWords), gap \in { <<" ">>, <<" ", " ">> } }

InitOpt ==
  /\ pc = "optimize_length"
  /\ title \in OptTitles
  /\ ctr_model = None
  /\ submitted = FALSE
  /\ competitor_title = <<>>
  /\ video_topic = <<>>
  /\ calls = {}
  /\ variants = <<>>
  /\ result = <<>>
  /\ again = <<>>
  /\ HandlerIdle

\* result = optimize_length(title)
CallOptimizeLength ==
  /\ pc = "optimize_length"
  /\ \E r \in optimize_length(title, Len(additions)) : result' = r
  /\ pc' = "optimize_again"
  /\ UNCHANGED << submitted, competitor_title, video_topic, ctr_model, titles,
                  used_templates, picked, generated_titles, sentiment, ctr_score,
                  title_ctr, variant_ctr, optimized_titles, ab_test_variants, idx,
                  rendered, calls, title, variants, again >>

\* again = optimize_length(result)
CallOptimizeAgain ==
  /\ pc = "optimize_again"
  /\ \E r \in optimize_length(result, Len(additions)) : again' = r
  /\ pc' = "returned"
  /\ UNCHANGED << submitted, competitor_title, video_topic, ctr_model, titles,
                  used_templates, picked, generated_titles, sentiment, ctr_score,
                  title_ctr, variant_ctr, optimized_titles, ab_test_variants, idx,
                  rendered, calls, title, variants, result >>

NextOpt ==
  \/ CallOptimizeLength
  \/ CallOptimizeAgain

SpecOpt == InitOpt /\ [][NextOpt]_vars

(***************************************************************************)
(* generate_ab_test_variants on its own.                                   *)
(***************************************************************************)
AbTokens == { <<"a", "b">>, <<" ">>, <<"?">>, <<"7">>, <<"[", "x", "]">>, <<"[">>, <<"s", "e", "c", "r", "e", "t">> }

RECURSIVE TokenTitles(_)
\* the concatenations of up to k tokens
TokenTitles(k) ==
  IF k = 0 THEN { <<>> }
  ELSE LET shorter == TokenTitles(k - 1)
       IN  shorter \cup { s \o tok : s \in shorter, tok \in AbTokens }

\* Titles that hold a power word as the catalog spells it.
PowerTitles == { <<"S", "e", "c", "r", "e", "t">>, <<"7", " ", "S", "e", "c", "r", "e", "t", " ", "t", "i", "p", "s", "?">>, <<"U", "l", "t", "i", "m", "a", "t", "e", " ", "S", "e", "c", "r", "e", "t">>, <<"S", "E", "C", "R", "E", "T", " ", "M", "a", "s", "t", "e", "r", " ", "[", "x", "]">> }

AbTitles == TokenTitles(MaxTokens) \cup PowerTitles

InitAB ==
  /\ pc = "generate_ab_test_variants"
  /\ title \in AbTitles
  /\ ctr_model = None
  /\ submitted = FALSE
  /\ competitor_title = <<>>
  /\ video_topic = <<>>
  /\ calls = {}
  /\ variants = <<>>
  /\ result = <<>>
  /\ again = None
  /\ HandlerIdle

\* the four rules fill variants
BuildVariants ==
  /\ pc = "generate_ab_test_variants"
  /\ \E n \in NumberDraws(title, Len(VariantNumbers)),
        deltas \in DeltaDraws(title, Len(VariantDeltas)),
        p \in PowerWordDraws(title, Len(POWER_WORDS)),
        b \in BracketDraws(title, Len(brackets)) :
       variants' = VariantList(title, n, deltas, p, b)
  /\ pc' = "dedup"
  /\ UNCHANGED << submitted, competitor_title, video_topic, ctr_model, titles,
                  used_templates, picked, generated_titles, sentiment, ctr_score,
                  title_ctr, variant_ctr, optimized_titles, ab_test_variants, idx,
                  rendered, calls, title, result, again >>

\* return list(set(variants))[:4]
ReturnVariants ==
  /\ pc = "dedup"
  /\ \E r \in ReturnedVariants(variants) : result' = r
  /\ pc' = "returned"
  /\ UNCHANGED << submitted, competitor_title, video_topic, ctr_model, titles,
                  used_templates, picked, generated_titles, sentiment, ctr_score,
                  title_ctr, variant_ctr, optimized_titles, ab_test_variants, idx,
                  rendered, calls, title, variants, again >>

NextAB ==
  \/ BuildVariants
  \/ ReturnVariants

SpecAB == InitAB /\ [][NextAB]_vars

(***************************************************************************)
(* The properties.                                                         *)
(***************************************************************************)
\* C1: when generate_titles returns, it returns exactly 3 titles, each built
\* from a template of TEMPLATES with the keyword, and the 3 templates are
\* pairwise distinct; at every step the templates accepted so far are
\* pairwise distinct and are exactly the set used_templates.
C1_ThreeDistinctTemplates ==
  /\ \A i, j \in 1..Len(picked) : i # j => picked[i] # picked[j]
  /\ Range(picked) = used_templates
  /\ Len(titles) = Len(picked)
  /\ pc = "analyze_competitor" =>
       /\ Len(generated_titles) = 3
       /\ Len(picked) = 3
       /\ \A i \in 1..3 :
            /\ picked[i] \in Range(TEMPLATES)
            /\ \E n \in Choices(TitleNumbers, MaxFill), p \in Choices(POWER_WORDS, MaxFill) :
                 generated_titles[i] = FillTemplate(picked[i], n, p, video_topic)

\* generate_titles returned for a keyword, after the last template of the
\* catalog was accepted first and the first one last
C1_Witness ==
  /\ pc = "analyze_competitor"
  /\ video_topic # <<>>
  /\ Len(generated_titles) = 3
  /\ picked[1] = TEMPLATES[Len(TEMPLATES)]
  /\ picked[3] = TEMPLATES[1]

\* the rating the thresholds give a returned value, in tenths
RatingOfValue(v) == IF v > 70 THEN "good" ELSE IF v > 40 THEN "avg" ELSE "bad"

\* C2: in the heuristic fallback path the returned rating is the one the
\* thresholds give the returned, rounded value: "good" exactly when value > 7,
\* "avg" exactly when 4 < value <= 7, "bad" otherwise.
C2_RatingFromReturnedValue ==
  (pc = "returned" /\ ctr_model = None) =>
    result.value.rating = RatingOfValue(result.value.value)

\* what the page holds of the results of a request
Kinds == { rendered[i].kind : i \in 1..Len(rendered) }

\* C3: once a generation or scoring step of a request has raised, the page
\* holds no competitor analysis block, no generated-title card and no A/B
\* variant line, and the request ends with the error message alone.
C3_NoPartialOutput ==
  (pc = "except" \/ "error" \in Kinds) =>
    /\ Kinds \cap { "competitor_analysis", "card", "variant" } = {}
    /\ pc = "done" => (Len(rendered) = 1 /\ rendered[1].kind = "error")

\* C4: a request whose competitor title or keyword is empty never invokes
\* generate_titles, analyze_sentiment, predict_ctr, optimize_length or
\* generate_ab_test_variants.
C4_EmptyInputBlocked ==
  (competitor_title = <<>> \/ video_topic = <<>>) => calls = {}

\* C5, as amended: for a title longer than 65, when optimize_length returns
\* a title of at least 40 characters, optimize_length applied to that result
\* returns it unchanged.
C5_IdempotentFromForty ==
  (pc = "returned" /\ Len(title) > 65 /\ Len(result) >= 40) => again = result

\* a title longer than 65 lost a word, came out 40 or more long and went
\* through optimize_length again
C5_Witness ==
  /\ pc = "returned"
  /\ Len(title) > 65
  /\ Len(Split(result)) < Len(Split(title))
  /\ Len(result) >= 40
  /\ again = result

\* C5, as claimed: for every title longer than 65, optimize_length applied
\* to the result of optimize_length makes no further change.
C5_Idempotent ==
  (pc = "returned" /\ Len(title) > 65) => again = result

\* C6, as amended: in the heuristic fallback path predict_ctr("Why This
\* Works") returns value 3.8 and rating "bad": the title is 14 long, its
\* length score is 0.28, no bonus applies, the raw score is 3.84 and the
\* clamp is not active.
C6_WhyThisWorksIsThreePointEight ==
  (pc = "returned" /\ ctr_model = None /\ title = WhyThisWorks) =>
    /\ result.value = [value |-> 38, rating |-> "bad"]
    /\ Len(title) = 14
    /\ LengthScore(title) = 84
    /\ PowerWordScore(title) + NumberScore(title) + QuestionScore(title) = 0
    /\ HeuristicCtr(title) = 384

\* predict_ctr("Why This Works") returned in the heuristic fallback path
C6_Witness ==
  /\ pc = "returned"
  /\ ctr_model = None
  /\ title = WhyThisWorks
  /\ result.raised = FALSE

\* C6, as claimed: predict_ctr("Why This Works") returns value 3.9 and
\* rating "bad".
C6_WhyThisWorksIsThreePointNine ==
  (pc = "returned" /\ ctr_model = None /\ title = WhyThisWorks) =>
    result.value = [value |-> 39, rating |-> "bad"]

\* no '?', no purely numeric token, no power word in any case, no '['
Plain(t) ==
  /\ ~Contains(t, <<"?">>)
  /\ ~HasNumberToken(t)
  /\ ~HasPowerWord(t)
  /\ ~Contains(t, <<"[">>)

\* C7: for every title the returned list has no duplicates and at most 4
\* entries; for a title with no '?', no numeric token, no power word and no
\* '[', rule 3 adds no candidate and the list holds exactly 3 distinct
\* titles: the title with '?' appended, the title with a number of {3,5,7}
\* and a space prepended, the title with a space and a bracket appended.
C7_PlainTitleThreeVariants ==
  pc = "returned" =>
    /\ Len(result) <= 4
    /\ \A i, j \in 1..Len(result) : i # j => result[i] # result[j]
    /\ Plain(title) =>
         /\ Len(variants) = 3
         /\ Len(result) = 3
         /\ \E n \in Range(VariantNumbers), b \in Range(brackets) :
              Range(result) = { title \o <<"?">>,
                                IntToStr(n) \o <<" ">> \o title,
                                title \o <<" ">> \o b }

\* a non-empty plain title got its three variants
C7_Witness ==
  /\ pc = "returned"
  /\ title # <<>>
  /\ Plain(title)
  /\ Len(result) = 3

\* C8, as amended: for a title longer than 65, the title optimize_length
\* returns is at most 60 long or has at most 5 words.
C8_ShortOrAtMostFiveWords ==
  (pc \in { "optimize_again", "returned" } /\ Len(title) > 65) =>
    (Len(result) <= 60 \/ Len(Split(result)) <= 5)

\* a title longer than 65 lost words down to 5 and is still longer than 60
C8_Witness ==
  /\ pc = "optimize_again"
  /\ Len(title) > 65
  /\ Len(Split(title)) > 5
  /\ Len(Split(result)) = 5
  /\ Len(result) > 60

\* C8, as claimed: for a title longer than 65, the title optimize_length
\* returns is at most 60 long or has fewer than 5 words.
C8_ShortOrFewerThanFiveWords ==
  (pc \in { "optimize_again", "returned" } /\ Len(title) > 65) =>
    (Len(result) <= 60 \/ Len(Split(result)) < 5)

\* C9: whenever a power word occurs in the title in any case, rule 3 adds a
\* candidate, and that candidate differs from the title.
C9_PowerWordSwapDiffers ==
  (pc \in { "dedup", "returned" } /\ HasPowerWord(title)) =>
    /\ Len(variants) = 4
    /\ variants[3] # title

\* t holds a '[' with a ']' after it
HasBracketSpan(t) ==
  \E i, j \in 1..Len(t) : i < j /\ t[i] = "[" /\ t[j] = "]"

\* t without its first bracketed span
WithoutFirstSpan(t) ==
  LET i == CHOOSE a \in 1..Len(t) :
             /\ t[a] = "[" /\ \E c \in (a + 1)..Len(t) : t[c] = "]"
             /\ \A e \in 1..(a - 1) : ~(t[e] = "[" /\ \E c \in (e + 1)..Len(t) : t[c] = "]")
      j == CHOOSE c \in (i + 1)..Len(t) :
             t[c] = "]" /\ \A e \in (i + 1)..(c - 1) : t[e] # "]"
  IN  SubSeq(t, 1, i - 1) \o SubSeq(t, j + 1, Len(t))

\* C10: the candidate of rule 4 is, for a title with a bracketed span, the
\* title with its first span alone removed and the whitespace around
\* trimmed, and for any other title, one with '[' and no ']' included, the
\* title followed by a space and a bracket of the fixed set.
C10_BracketToggle ==
  pc \in { "dedup", "returned" } =>
    IF HasBracketSpan(title)
    THEN variants[Len(variants)] = Strip(WithoutFirstSpan(title))
    ELSE \E b \in Range(brackets) :
           variants[Len(variants)] = title \o <<" ">> \o b
====
